---- MODULE Spec2Model ----
(***************************************************************************)
(* scafaps: alignment of suppression patterns against SCA output lines.    *)
(* The model follows run_scafaps from the point where the suppressions and *)
(* the input lines have been read: prefix scan, LCS table, backtrace,      *)
(* printing, exit status.                                                  *)
(*                                                                         *)
(* A regular expression and a line's content are opaque: the variable      *)
(* match says which suppression (by linenr) fullmatches which line (by     *)
(* linenr).  Every boolean relation is drawn in Init.                      *)
(*                                                                         *)
(* The log lines one loop iteration appends to tmp_output are modelled as  *)
(* one event record (tag, suppression linenr, line linenr).                *)
(***************************************************************************)
EXTENDS Integers, Sequences, FiniteSets, TLC

\* Bounds of the model: the longest suppression list and input drawn in Init.
MaxRegexps == 3
MaxLines == 3

VARIABLES
  pc,                \* position in run_scafaps
  args,              \* parsed options: error, error_unused
  match,             \* match[s, l]: suppression s fullmatches line l
  input_regexps,     \* the suppressions as read from the suppressions file
  input_lines,       \* the lines as read from stdin
  regexps,           \* run_scafaps' regexps (truncated after the scan)
  lines,             \* run_scafaps' lines (truncated after the scan)
  skip,              \* length of the initial matching sequence
  lcs_table,         \* the table built by compute_lcs_table
  i, j,              \* backtrace cursor
  unmatched_regexps, \* counter of show_diffs_from_lcs_table
  unmatched_lines,   \* counter of show_diffs_from_lcs_table
  reversed_output,   \* events collected by the backtrace, newest last
  output,            \* what has been printed so far
  counts,            \* the tuple returned by show_diffs_from_lcs_table
  summary_level,     \* log level log_diffs_summary was called with
  exit_status        \* exit status of the process, None while running

vars == <<pc, args, match, input_regexps, input_lines, regexps, lines, skip,
          lcs_table, i, j, unmatched_regexps, unmatched_lines,
          reversed_output, output, counts, summary_level,
          exit_status>>

None == -1

Min(a, b) == IF a < b THEN a ELSE b

max(a, b) == IF a > b THEN a ELSE b

Reverse(s) == [k \in 1..Len(s) |-> s[Len(s) + 1 - k]]

\* Line(nr, raw_lines[nr]) for nr in range(n): the content is opaque.
read_lines(n) == [k \in 1..n |-> [linenr |-> k - 1]]

\* Regexp(nr, raw_line, regexp) for a file without comment lines.
read_suppressions_file(n) == [k \in 1..n |-> [linenr |-> k - 1]]

\* regexp.regexp.fullmatch(line.content)
fullmatch(regexp, line) == match[regexp.linenr, line.linenr]

\* The events behind the printed lines.
Match(s, l) == [tag |-> "Match", s |-> s, l |-> l]

UnmatchedSuppression(s) == [tag |-> "UnmatchedSuppression", s |-> s, l |-> None]

UnmatchedLine(l) == [tag |-> "UnmatchedLine", s |-> None, l |-> l]

\* show_match(regexps, lines, i, j), with 0-based i and j as in the code.
show_match(rs, ls, a, b) == Match(rs[a + 1].linenr, ls[b + 1].linenr)

\* Faulty variant: the lists are left as they are.
truncate_none(seq, n) == seq

\* seq[n:]
truncate(seq, n) == SubSeq(seq, n + 1, Len(seq))

\* Faulty variant: the scan does not stop at the first mismatch.
compute_initial_matching_sequence_nostop(rs, ls) == Min(Len(rs), Len(ls))

\* The index of the first mismatch, or the length of the shorter list.
compute_initial_matching_sequence(rs, ls) ==
  LET n == Min(Len(rs), Len(ls))
      scan[index \in 0..n] ==
        IF index = n THEN n
        ELSE IF fullmatch(rs[index + 1], ls[index + 1]) THEN scan[index + 1]
        ELSE index
  IN scan[0]

\* Faulty variant: a match adds one to the larger neighbour.
compute_lcs_table_nodiag(rs, ls) ==
  LET array[p \in (0..Len(rs)) \X (0..Len(ls))] ==
        IF p[1] = 0 \/ p[2] = 0 THEN 0
        ELSE IF fullmatch(rs[p[1]], ls[p[2]])
             THEN max(array[p[1], p[2] - 1], array[p[1] - 1, p[2]]) + 1
             ELSE max(array[p[1], p[2] - 1], array[p[1] - 1, p[2]])
  IN array

\* array[a][b]: filled row by row from row 0 and column 0, which stay 0.
compute_lcs_table(rs, ls) ==
  LET array[p \in (0..Len(rs)) \X (0..Len(ls))] ==
        IF p[1] = 0 \/ p[2] = 0 THEN 0
        ELSE IF fullmatch(rs[p[1]], ls[p[2]])
             THEN array[p[1] - 1, p[2] - 1] + 1
             ELSE max(array[p[1], p[2] - 1], array[p[1] - 1, p[2]])
  IN array

\* Faulty variant: on a tie at a cell without a match the suppression goes first.
classify_tie_suppression(table, rs, ls, a, b) ==
  IF a = 0 THEN "UNMATCHED_INPUT_LINE"
  ELSE IF b = 0 THEN "UNMATCHED_SUPPRESSION"
  ELSE IF fullmatch(rs[a], ls[b])
       THEN IF table[a, b - 1] = table[a, b] THEN "UNMATCHED_INPUT_LINE"
            ELSE IF table[a - 1, b] = table[a, b] THEN "UNMATCHED_SUPPRESSION"
            ELSE "MATCH"
  ELSE IF table[a, b - 1] > table[a - 1, b] THEN "UNMATCHED_INPUT_LINE"
  ELSE IF table[a, b - 1] = table[a - 1, b] THEN "UNMATCHED_SUPPRESSION"
  ELSE IF table[a, b - 1] < table[a - 1, b] THEN "UNMATCHED_SUPPRESSION"
  ELSE "ASSERTION_ERROR"

\* Faulty variant: at a cell without a match the walk goes to the smaller neighbour.
classify_wrong_neighbour(table, rs, ls, a, b) ==
  IF a = 0 THEN "UNMATCHED_INPUT_LINE"
  ELSE IF b = 0 THEN "UNMATCHED_SUPPRESSION"
  ELSE IF fullmatch(rs[a], ls[b])
       THEN IF table[a, b - 1] = table[a, b] THEN "UNMATCHED_INPUT_LINE"
            ELSE IF table[a - 1, b] = table[a, b] THEN "UNMATCHED_SUPPRESSION"
            ELSE "MATCH"
  ELSE IF table[a, b - 1] < table[a - 1, b] THEN "UNMATCHED_INPUT_LINE"
  ELSE IF table[a, b - 1] = table[a - 1, b] THEN "UNMATCHED_INPUT_LINE"
  ELSE "UNMATCHED_SUPPRESSION"

\* Faulty variant: the branch for equal neighbours is missing.
classify_no_tie(table, rs, ls, a, b) ==
  IF a = 0 THEN "UNMATCHED_INPUT_LINE"
  ELSE IF b = 0 THEN "UNMATCHED_SUPPRESSION"
  ELSE IF fullmatch(rs[a], ls[b])
       THEN IF table[a, b - 1] = table[a, b] THEN "UNMATCHED_INPUT_LINE"
            ELSE IF table[a - 1, b] = table[a, b] THEN "UNMATCHED_SUPPRESSION"
            ELSE "MATCH"
  ELSE IF table[a, b - 1] > table[a - 1, b] THEN "UNMATCHED_INPUT_LINE"
  ELSE IF table[a, b - 1] < table[a - 1, b] THEN "UNMATCHED_SUPPRESSION"
  ELSE "ASSERTION_ERROR"

\* The scenario of the lcs table at (a, b), a and b being the loop's i and j.
\* The final else-branch asserts table[a][b-1] < table[a-1][b].
classify(table, rs, ls, a, b) ==
  IF a = 0 THEN "UNMATCHED_INPUT_LINE"
  ELSE IF b = 0 THEN "UNMATCHED_SUPPRESSION"
  ELSE IF fullmatch(rs[a], ls[b])
       THEN IF table[a, b - 1] = table[a, b] THEN "UNMATCHED_INPUT_LINE"
            ELSE IF table[a - 1, b] = table[a, b] THEN "UNMATCHED_SUPPRESSION"
            ELSE "MATCH"
  ELSE IF table[a, b - 1] > table[a - 1, b] THEN "UNMATCHED_INPUT_LINE"
  ELSE IF table[a, b - 1] = table[a - 1, b] THEN "UNMATCHED_INPUT_LINE"
  ELSE IF table[a, b - 1] < table[a - 1, b] THEN "UNMATCHED_SUPPRESSION"
  ELSE "ASSERTION_ERROR"

\* Faulty variant: a match is tallied as an unmatched suppression as well.
update_counts_match(result, st) ==
  IF result = "UNMATCHED_SUPPRESSION"
  THEN [st EXCEPT !.unmatched_regexps = @ + 1, !.i = @ - 1,
          !.reversed_output =
             Append(@, UnmatchedSuppression(st.regexps[st.i].linenr))]
  ELSE IF result = "UNMATCHED_INPUT_LINE"
  THEN [st EXCEPT !.unmatched_lines = @ + 1, !.j = @ - 1,
          !.reversed_output = Append(@, UnmatchedLine(st.lines[st.j].linenr))]
  ELSE [st EXCEPT !.unmatched_regexps = @ + 1, !.i = @ - 1, !.j = @ - 1,
          !.reversed_output =
             Append(@, Match(st.regexps[st.i].linenr, st.lines[st.j].linenr))]

\* Faulty variant: a match moves the cursor past the suppression only.
update_match_keeps_line(result, st) ==
  IF result = "UNMATCHED_SUPPRESSION"
  THEN [st EXCEPT !.unmatched_regexps = @ + 1, !.i = @ - 1,
          !.reversed_output =
             Append(@, UnmatchedSuppression(st.regexps[st.i].linenr))]
  ELSE IF result = "UNMATCHED_INPUT_LINE"
  THEN [st EXCEPT !.unmatched_lines = @ + 1, !.j = @ - 1,
          !.reversed_output = Append(@, UnmatchedLine(st.lines[st.j].linenr))]
  ELSE [st EXCEPT !.i = @ - 1,
          !.reversed_output =
             Append(@, Match(st.regexps[st.i].linenr, st.lines[st.j].linenr))]

\* "write log and update variables according to result": st holds the
\* function's locals.
update(result, st) ==
  IF result = "UNMATCHED_SUPPRESSION"
  THEN [st EXCEPT !.unmatched_regexps = @ + 1, !.i = @ - 1,
          !.reversed_output =
             Append(@, UnmatchedSuppression(st.regexps[st.i].linenr))]
  ELSE IF result = "UNMATCHED_INPUT_LINE"
  THEN [st EXCEPT !.unmatched_lines = @ + 1, !.j = @ - 1,
          !.reversed_output = Append(@, UnmatchedLine(st.lines[st.j].linenr))]
  ELSE [st EXCEPT !.i = @ - 1, !.j = @ - 1,
          !.reversed_output =
             Append(@, Match(st.regexps[st.i].linenr, st.lines[st.j].linenr))]

\* One iteration of the while loop; a failed assertion raises and leaves the
\* locals as they are.
loop_body(table, st) ==
  LET result == classify(table, st.regexps, st.lines, st.i, st.j)
  IN IF result = "ASSERTION_ERROR" THEN [st EXCEPT !.raised = TRUE]
     ELSE update(result, st)

\* Faulty variant: the collected output is printed without reversing it.
printed_unreversed(rev) == rev

\* "for message in reversed(reversed_output): print(message)"
printed(rev) == Reverse(rev)

RECURSIVE while_loop(_, _)
while_loop(table, st) ==
  IF st.raised \/ ~(st.i > 0 \/ st.j > 0) THEN st
  ELSE while_loop(table, loop_body(table, st))

\* The whole of show_diffs_from_lcs_table: what it prints and what it returns.
show_diffs_from_lcs_table(table, rs, ls) ==
  LET st == while_loop(table,
              [regexps |-> rs, lines |-> ls, i |-> Len(rs), j |-> Len(ls),
               unmatched_regexps |-> 0, unmatched_lines |-> 0,
               reversed_output |-> <<>>, raised |-> FALSE])
  IN [raised |-> st.raised,
      output |-> printed(st.reversed_output),
      counts |-> <<st.unmatched_regexps, st.unmatched_lines>>]

\* The exit status run_scafaps ends with: sys.exit(1), sys.exit(0), or the
\* end of the script (status 0).
exit_code(a, c) ==
  IF c[2] > 0 THEN (IF a.error THEN 1 ELSE 0)
  ELSE IF c[1] > 0 THEN (IF a.error_unused THEN 1 ELSE 0)
  ELSE 0

TypeOK ==
  /\ pc \in {"scan", "lcs", "diffs", "summary", "exited", "abort"}
  /\ args \in [error : BOOLEAN, error_unused : BOOLEAN]
  /\ skip \in 0..MaxRegexps
  /\ i \in 0..Len(regexps)
  /\ j \in 0..Len(lines)
  /\ unmatched_regexps \in Nat
  /\ unmatched_lines \in Nat
  /\ exit_status \in {None, 0, 1}

\* The state once the options are parsed and both inputs are read.
Inputs ==
  /\ \E nS \in 0..MaxRegexps, nL \in 0..MaxLines :
       /\ input_regexps = read_suppressions_file(nS)
       /\ input_lines = read_lines(nL)
       /\ match \in [(0..(nS - 1)) \X (0..(nL - 1)) -> BOOLEAN]
  /\ regexps = input_regexps
  /\ lines = input_lines
  /\ skip = 0
  /\ lcs_table = <<>>
  /\ i = 0
  /\ j = 0
  /\ unmatched_regexps = 0
  /\ unmatched_lines = 0
  /\ reversed_output = <<>>
  /\ output = <<>>
  /\ counts = <<0, 0>>
  /\ summary_level = None
  /\ exit_status = None

Init ==
  /\ Inputs
  /\ args \in [error : BOOLEAN, error_unused : BOOLEAN]
  /\ pc = "scan"

\* skip = compute_initial_matching_sequence(...); regexps[skip:]; lines[skip:]
\* The scan shows a match for every index it passes.
InitialMatchingSequence ==
  /\ pc = "scan"
  /\ skip' = compute_initial_matching_sequence(regexps, lines)
  /\ output' = output \o [k \in 1..skip' |-> show_match(regexps, lines, k - 1, k - 1)]
  /\ regexps' = truncate(regexps, skip')
  /\ lines' = truncate(lines, skip')
  /\ pc' = "lcs"
  /\ UNCHANGED <<args, match, input_regexps, input_lines, lcs_table, i, j,
                 unmatched_regexps, unmatched_lines, reversed_output, counts,
                 summary_level, exit_status>>

\* lcs_table = compute_lcs_table(regexps, lines), then the entry of
\* show_diffs_from_lcs_table up to the loop.
ComputeLcsTable ==
  /\ pc = "lcs"
  /\ lcs_table' = compute_lcs_table(regexps, lines)
  /\ reversed_output' = <<>>
  /\ unmatched_regexps' = 0
  /\ unmatched_lines' = 0
  /\ i' = Len(regexps)
  /\ j' = Len(lines)
  /\ pc' = "diffs"
  /\ UNCHANGED <<args, match, input_regexps, input_lines, regexps, lines,
                 skip, output, counts, summary_level, exit_status>>

Locals ==
  [regexps |-> regexps, lines |-> lines, i |-> i, j |-> j,
   unmatched_regexps |-> unmatched_regexps,
   unmatched_lines |-> unmatched_lines,
   reversed_output |-> reversed_output, raised |-> FALSE]

\* One iteration of "while i > 0 or j > 0".
ShowDiffsLoop ==
  /\ pc = "diffs"
  /\ i > 0 \/ j > 0
  /\ LET st == loop_body(lcs_table, Locals)
     IN /\ pc' = IF st.raised THEN "abort" ELSE "diffs"
        /\ i' = st.i
        /\ j' = st.j
        /\ unmatched_regexps' = st.unmatched_regexps
        /\ unmatched_lines' = st.unmatched_lines
        /\ reversed_output' = st.reversed_output
  /\ UNCHANGED <<args, match, input_regexps, input_lines, regexps, lines,
                 skip, lcs_table, output, counts, summary_level, exit_status>>

\* The loop is left: print the collected output and return the counters.
ShowDiffsReturn ==
  /\ pc = "diffs"
  /\ ~(i > 0 \/ j > 0)
  /\ output' = output \o printed(reversed_output)
  /\ counts' = <<unmatched_regexps, unmatched_lines>>
  /\ pc' = "summary"
  /\ UNCHANGED <<args, match, input_regexps, input_lines, regexps, lines,
                 skip, lcs_table, i, j, unmatched_regexps, unmatched_lines,
                 reversed_output, summary_level, exit_status>>

\* The summary and the exit status.
Exit ==
  /\ pc = "summary"
  /\ summary_level' = IF counts[2] > 0 \/ counts[1] > 0 THEN 0 ELSE 1
  /\ exit_status' = exit_code(args, counts)
  /\ pc' = "exited"
  /\ UNCHANGED <<args, match, input_regexps, input_lines, regexps, lines,
                 skip, lcs_table, i, j, unmatched_regexps, unmatched_lines,
                 reversed_output, output, counts>>

Next ==
  \/ InitialMatchingSequence
  \/ ComputeLcsTable
  \/ ShowDiffsLoop
  \/ ShowDiffsReturn
  \/ Exit

Spec == Init /\ [][Next]_vars

\* The table and the backtrace applied to the inputs as read, without the
\* prefix scan.
DirectInit ==
  /\ Inputs
  /\ args = [error |-> FALSE, error_unused |-> FALSE]
  /\ pc = "lcs"

DirectNext ==
  \/ ComputeLcsTable
  \/ ShowDiffsLoop
  \/ ShowDiffsReturn

DirectSpec == DirectInit /\ [][DirectNext]_vars

\* A sequential program keeps running until it returns.
DirectFairSpec == DirectSpec /\ WF_vars(DirectNext)

----------------------------------------------------------------------------
\* Properties

NumTagged(events, tag) ==
  Cardinality({k \in DOMAIN events : events[k].tag = tag})

Returned == pc \in {"summary", "exited"}

NoMatch == \A p \in DOMAIN match : ~match[p]

\* The position of x in the ascending order of the set A.
Rank(x, A) == Cardinality({y \in A : y <= x})

\* The order-preserving pairings of matching suppressions and lines among
\* the first a suppressions and the first b lines: the k-th smallest chosen
\* suppression is paired with the k-th smallest chosen line.
Pairings(a, b) ==
  {AB \in (SUBSET (1..a)) \X (SUBSET (1..b)) :
     /\ Cardinality(AB[1]) = Cardinality(AB[2])
     /\ \A x \in AB[1], y \in AB[2] :
          Rank(x, AB[1]) = Rank(y, AB[2]) => fullmatch(regexps[x], lines[y])}

MaxPairs(a, b) ==
  CHOOSE n \in 0..Min(a, b) :
    /\ \E AB \in Pairings(a, b) : Cardinality(AB[1]) = n
    /\ \A AB \in Pairings(a, b) : Cardinality(AB[1]) <= n

TableBuilt ==
  pc = "diffs" /\ i = Len(regexps) /\ j = Len(lines) /\ reversed_output = <<>>

\* C1: every cell [a][b] of the table built by compute_lcs_table is the
\* largest number of order-preserving matching pairs among the first a
\* suppressions and the first b lines.
C1_TableOptimal ==
  TableBuilt =>
    \A a \in 0..Len(regexps), b \in 0..Len(lines) :
      lcs_table[a, b] = MaxPairs(a, b)

C1_Witness ==
  /\ TableBuilt
  /\ Len(regexps) = 3
  /\ Len(lines) = 3
  /\ ~match[0, 0]
  /\ match[0, 1] /\ match[1, 0] /\ match[1, 2] /\ match[2, 1]
  /\ lcs_table[3, 3] = 2

\* C2: the printed events and the counts of a run with the prefix scan are
\* those of the table and backtrace applied to the untruncated inputs.
C2_FastPathEquivalence ==
  Returned =>
    LET direct == show_diffs_from_lcs_table(
                    compute_lcs_table(input_regexps, input_lines),
                    input_regexps, input_lines)
    IN /\ ~direct.raised
       /\ output = direct.output
       /\ counts = direct.counts

C2_Witness ==
  /\ pc = "exited"
  /\ skip = 1
  /\ Len(regexps) = 2
  /\ Len(lines) = 2
  /\ NumTagged(output, "Match") = 2
  /\ counts = <<1, 1>>

\* C3: when the backtrace has finished, every suppression index is in
\* exactly one UnmatchedSuppression or Match event and every line index in
\* exactly one UnmatchedLine or Match event.
C3_EventCoverage ==
  (pc = "diffs" /\ i = 0 /\ j = 0) =>
    /\ \A s \in 0..(Len(regexps) - 1) :
         Cardinality({k \in DOMAIN reversed_output :
            /\ reversed_output[k].tag \in {"UnmatchedSuppression", "Match"}
            /\ reversed_output[k].s = s}) = 1
    /\ \A l \in 0..(Len(lines) - 1) :
         Cardinality({k \in DOMAIN reversed_output :
            /\ reversed_output[k].tag \in {"UnmatchedLine", "Match"}
            /\ reversed_output[k].l = l}) = 1
    /\ \A k \in DOMAIN reversed_output :
         /\ reversed_output[k].s \in {None} \cup 0..(Len(regexps) - 1)
         /\ reversed_output[k].l \in {None} \cup 0..(Len(lines) - 1)

C3_Witness ==
  /\ pc = "diffs" /\ i = 0 /\ j = 0
  /\ Len(regexps) = 3
  /\ Len(lines) = 3
  /\ NumTagged(reversed_output, "Match") = 2
  /\ NumTagged(reversed_output, "UnmatchedSuppression") = 1
  /\ NumTagged(reversed_output, "UnmatchedLine") = 1

\* C4: the returned counts plus the number of Match events printed (by the
\* prefix scan and by the backtrace) are the lengths of the inputs, and each
\* counter is the number of events of its kind.
C4_CountConsistency ==
  /\ Returned =>
       /\ counts[1] + NumTagged(output, "Match") = Len(input_regexps)
       /\ counts[2] + NumTagged(output, "Match") = Len(input_lines)
       /\ counts[1] = NumTagged(output, "UnmatchedSuppression")
       /\ counts[2] = NumTagged(output, "UnmatchedLine")
  /\ pc = "diffs" =>
       /\ unmatched_regexps = NumTagged(reversed_output, "UnmatchedSuppression")
       /\ unmatched_lines = NumTagged(reversed_output, "UnmatchedLine")

C4_Witness ==
  /\ pc = "exited"
  /\ skip = 1
  /\ NumTagged(output, "Match") = 2
  /\ counts = <<1, 0>>

\* One suppression that matches both of two lines.
TieScenario ==
  /\ Len(input_regexps) = 1
  /\ Len(input_lines) = 2
  /\ match[0, 0]
  /\ match[0, 1]

\* C5 as stated: the earlier line is reported unmatched and the later line
\* is matched, counts (0, 1).
C5_PrefersLaterLine ==
  (TieScenario /\ pc = "exited") =>
    /\ output = <<UnmatchedLine(0), Match(0, 1)>>
    /\ counts = <<0, 1>>

\* C5, amended: the suppression is matched to the earlier line (index 0)
\* and the later line (index 1) is reported unmatched, counts (0, 1).
C5_PrefersEarlierLine ==
  (TieScenario /\ pc = "exited") =>
    /\ output = <<Match(0, 0), UnmatchedLine(1)>>
    /\ counts = <<0, 1>>

C5_Witness ==
  /\ TieScenario
  /\ pc = "exited"
  /\ skip = 1
  /\ Len(output) = 2

\* C6: with --error-unused, a run that leaves an unmatched suppression exits
\* with an error status, whatever --error is and whether or not lines are
\* unmatched too.
C6_ErrorUnused ==
  (pc = "exited" /\ args.error_unused /\ counts[1] > 0) => exit_status = 1

\* C7: when no suppression matches any line, the output is every
\* suppression as unmatched, ascending, then every line as unmatched,
\* ascending, and the counts are the two lengths.
C7_AllUnmatched ==
  (Returned /\ NoMatch) =>
    /\ output =
         [k \in 1..Len(input_regexps) |-> UnmatchedSuppression(k - 1)]
           \o [k \in 1..Len(input_lines) |-> UnmatchedLine(k - 1)]
    /\ counts = <<Len(input_regexps), Len(input_lines)>>

C7_Witness ==
  /\ pc = "exited"
  /\ NoMatch
  /\ Len(input_regexps) = 2
  /\ Len(input_lines) = 2
  /\ Len(output) = 4

\* C8: at every step of the backtrace the Match events emitted so far plus
\* the table's cell at the cursor are the table's last cell, and every
\* Match event pairs a suppression with a line it matches.
C8_BacktraceOptimal ==
  pc = "diffs" =>
    /\ NumTagged(reversed_output, "Match") + lcs_table[i, j]
         = lcs_table[Len(regexps), Len(lines)]
    /\ \A k \in DOMAIN reversed_output :
         reversed_output[k].tag = "Match" =>
           match[reversed_output[k].s, reversed_output[k].l]

C8_Witness ==
  /\ pc = "diffs" /\ i = 0 /\ j = 0
  /\ Len(regexps) = 3
  /\ Len(lines) = 3
  /\ ~match[2, 2]
  /\ lcs_table[3, 3] = 2
  /\ NumTagged(reversed_output, "Match") = 2

\* C9: in the output as printed, the suppression indices ascend strictly
\* and the line indices ascend strictly.
C9_AscendingOrder ==
  Returned =>
    \A k, m \in DOMAIN output :
      k < m =>
        /\ (output[k].s # None /\ output[m].s # None) => output[k].s < output[m].s
        /\ (output[k].l # None /\ output[m].l # None) => output[k].l < output[m].l

C9_Witness ==
  /\ pc = "exited"
  /\ skip = 1
  /\ Len(output) = 4
  /\ NumTagged(output, "Match") = 2

\* C10: the backtrace loop terminates with the cursor at (0, 0); every
\* iteration emits one event and decreases i + j; the cursor never leaves
\* the table and the assertion never fails.
C10_BacktraceTerminates ==
  /\ [](pc # "abort" /\ i >= 0 /\ j >= 0)
  /\ [][(pc = "diffs" /\ pc' # "summary") =>
          /\ pc' = "diffs"
          /\ i' + j' < i + j
          /\ Len(reversed_output') = Len(reversed_output) + 1]_vars
  /\ <>(pc = "summary" /\ i = 0 /\ j = 0)

C10_Witness ==
  /\ pc = "summary"
  /\ i = 0 /\ j = 0
  /\ Len(regexps) = 3
  /\ Len(lines) = 3
  /\ Len(reversed_output) = 5
====
